---- MODULE Spec2Model ----
(***************************************************************************)
(* ndslice: dataset selectors for multi-dataset files (HDF5, NPZ, MAT)     *)
(* and the command-line loop that drives them.                             *)
(*                                                                         *)
(* Strings that the code splits or concatenates (dataset paths) are        *)
(* sequences of tokens: a token is either a name (which holds no slash)    *)
(* or the separator "/".  NoneVal stands for Python's None.                *)
(***************************************************************************)
EXTENDS Integers, Sequences, FiniteSets, TLC

\* ---------------------------------------------------------------- bounds
\* Deepest nesting of groups (HDF5) or structs (MAT) around a leaf.
MaxDepth == 2
\* Most top-level entries of one container.
MaxEntries == 2
\* Most file arguments on one command line.
MaxFiles == 3
\* Most double-clicks delivered to one dialog.
MaxClicks == 2

\* ------------------------------------------------------- strings, tuples
SLASH == "/"
NoneVal == <<>>
\* a name as a string
Str(token) == <<token>>

RECURSIVE Flatten(_)
\* concatenation of a sequence of sequences
Flatten(ss) == IF ss = <<>> THEN <<>> ELSE Head(ss) \o Flatten(Tail(ss))

RECURSIVE Product(_)
\* number of elements of an array of the given shape
Product(shape) == IF shape = <<>> THEN 1 ELSE Head(shape) * Product(Tail(shape))

\* f"{a}/{b}"
Slash(a, b) == a \o <<SLASH>> \o b

RECURSIVE SplitFrom(_, _)
\* str.split('/'): the segments between separators; cur is the segment so far
SplitFrom(s, cur) ==
    IF s = <<>> THEN <<cur>>
    ELSE IF Head(s) = SLASH THEN <<cur>> \o SplitFrom(Tail(s), <<>>)
    ELSE SplitFrom(Tail(s), Append(cur, Head(s)))

Split(s) == SplitFrom(s, <<>>)

Range(s) == {s[k] : k \in 1..Len(s)}

\* first element of the preference list prefs present in names, else NoneVal
RECURSIVE FirstIn(_, _)
FirstIn(prefs, names) ==
    IF prefs = <<>> THEN NoneVal
    ELSE IF Head(prefs) \in names THEN Head(prefs)
    ELSE FirstIn(Tail(prefs), names)

\* np.issubdtype(dtype, np.number): integer, floating and complex kinds
IsNumber(dtype) == dtype \in {"int", "float", "complex"}

\* ----------------------------------------------------------- results
\* An array handed back by a load: its shape, element kind and where the
\* values come from (the node's path, the field read, the field used as
\* imaginary part).  node is the place of the object read: the names from
\* the root to it.  A raised exception is a result with ok = FALSE.
Arr(shape, dtype, node, field, imag) ==
    [ok |-> TRUE, err |-> "", shape |-> shape, dtype |-> dtype,
     node |-> node, field |-> field, imag |-> imag]

Raise(e) ==
    [ok |-> FALSE, err |-> e, shape |-> <<>>, dtype |-> "",
     node |-> <<>>, field |-> <<>>, imag |-> <<>>]

\* ------------------------------------------------------------ tree widget
\* One QTreeWidgetItem: its text, the shape and dtype it shows, the data
\* stored under UserRole (path) and UserRole + 1 (compatible), its type
\* column ("" for a leaf) and its parent (the names of its ancestors, <<>>
\* for a top-level item).
\* a group item stored as selectable
AddGroupSelectable(parent, name, path, item_type) ==
    [name |-> name, shape |-> <<>>, dtype |-> "", path |-> path,
     compatible |-> TRUE, type |-> item_type, parent |-> parent]

AddGroup(parent, name, path, item_type) ==
    [name |-> name, shape |-> <<>>, dtype |-> "", path |-> path,
     compatible |-> FALSE, type |-> item_type, parent |-> parent]

AddItem(parent, name, shape, dtype, path, compatible) ==
    [name |-> name, shape |-> shape, dtype |-> dtype, path |-> path,
     compatible |-> compatible, type |-> "", parent |-> parent]

\* ------------------------------------------------------------------ HDF5
\* A field of a compound dtype: a scalar of kind base, or (hasSub) an
\* array of shape sub over base.
Field(name, base, hasSub, sub) ==
    [name |-> name, base |-> base, hasSub |-> hasSub, sub |-> sub]

H5Dataset(name, shape, dtype, fields) ==
    [name |-> name, kind |-> "Dataset", shape |-> shape, dtype |-> dtype,
     fields |-> fields, children |-> <<>>]

H5Group(name, children) ==
    [name |-> name, kind |-> "Group", shape |-> <<>>, dtype |-> "",
     fields |-> <<>>, children |-> children]

\* dataset.dtype.names (NoneVal when the dtype is not compound)
DtypeNames(obj) == [k \in 1..Len(obj.fields) |-> obj.fields[k].name]

IsCompoundDataset(dataset) == dataset.dtype = "compound"

FieldNamed(dataset, field_name) ==
    CHOOSE f \in Range(dataset.fields) : f.name = field_name

GetCompoundFieldInfo(dataset, field_name) ==
    LET f == FieldNamed(dataset, field_name)
    IN  IF f.hasSub
        THEN [shape |-> f.sub, dtype |-> f.base,
              is_array |-> Len(f.sub) >= 1 /\ IsNumber(f.base)]
        ELSE [shape |-> <<1>>, dtype |-> f.base, is_array |-> FALSE]

RECURSIVE VisitItems(_, _)
\* Group.visititems: every object below the group, parents before their
\* members, with its name relative to the group
VisitItems(children, prefix) ==
    IF children = <<>> THEN <<>>
    ELSE LET obj  == Head(children)
             name == IF prefix = <<>> THEN obj.name
                     ELSE Slash(prefix, obj.name)
         IN  <<[name |-> name, obj |-> obj]>>
             \o (IF obj.kind = "Group" THEN VisitItems(obj.children, name)
                 ELSE <<>>)
             \o VisitItems(Tail(children), prefix)

\* what one call of visit_func appends to `compatible`
VisitFunc(name, obj) ==
    IF obj.kind = "Dataset" /\ Len(obj.shape) >= 1
    THEN IF IsCompoundDataset(obj)
         THEN Flatten([k \in 1..Len(obj.fields) |->
                 LET info == GetCompoundFieldInfo(obj, obj.fields[k].name)
                 IN  IF info.is_array
                     THEN <<[path |-> Slash(name, obj.fields[k].name),
                             shape |-> info.shape, dtype |-> info.dtype]>>
                     ELSE <<>>])
         ELSE IF IsNumber(obj.dtype)
         THEN <<[path |-> name, shape |-> obj.shape, dtype |-> obj.dtype]>>
         ELSE <<>>
    ELSE <<>>

H5FindCompatibleDatasets(root) ==
    LET visited == VisitItems(root, <<>>)
    IN  Flatten([k \in 1..Len(visited) |->
                    VisitFunc(visited[k].name, visited[k].obj)])

RECURSIVE H5Walk(_, _, _)
\* h5_file[path]: follow the segments of the path from the root group;
\* KeyError when a segment names no member or the walk meets a dataset.
\* loc is the place reached: the names of the members followed.
H5Walk(children, segs, loc) ==
    LET hit == {c \in Range(children) : c.name = Head(segs)}
        miss == [found |-> FALSE, obj |-> H5Group(<<>>, <<>>), loc |-> <<>>]
    IN  IF hit = {} THEN miss
        ELSE LET obj == CHOOSE c \in hit : TRUE
             IN  IF Len(segs) = 1
                 THEN [found |-> TRUE, obj |-> obj,
                       loc |-> Append(loc, obj.name)]
                 ELSE IF obj.kind = "Group"
                 THEN H5Walk(obj.children, Tail(segs), Append(loc, obj.name))
                 ELSE miss

H5GetItem(root, path) == H5Walk(root, Split(path), <<>>)

\* the part of load_data after the compound-field branch ("Regular dataset")
H5LoadRegular(root, path) ==
    LET got == H5GetItem(root, path)
        dset == got.obj
        names == Range(DtypeNames(dset))
        real_name == FirstIn(<<Str("real"), Str("realdata"), Str("r")>>, names)
        imag_name == FirstIn(<<Str("imag"), Str("imagdata"), Str("i")>>, names)
    IN  IF ~got.found THEN Raise("KeyError")
        ELSE IF dset.kind = "Group" THEN Raise("AttributeError")
        ELSE IF dset.dtype = "complex"
        THEN Arr(dset.shape, "complex", got.loc, <<>>, <<>>)
        ELSE IF names /= {} /\ real_name /= NoneVal /\ imag_name /= NoneVal
        THEN Arr(dset.shape \o FieldNamed(dset, real_name).sub,
                 "complex", got.loc, real_name, imag_name)
        ELSE IF names /= {} /\ real_name /= NoneVal
        THEN Arr(dset.shape \o FieldNamed(dset, real_name).sub,
                 FieldNamed(dset, real_name).base, got.loc, real_name, <<>>)
        ELSE Arr(dset.shape, dset.dtype, got.loc, <<>>, <<>>)

H5LoadData(root, path) ==
    LET parts == Split(path)
    IN  IF Len(parts) = 2
        THEN LET got  == H5GetItem(root, parts[1])
                 dset == got.obj
             IN  IF ~got.found THEN Raise("KeyError")
                 ELSE IF dset.kind = "Group" THEN Raise("AttributeError")
                 ELSE IF parts[2] \in Range(DtypeNames(dset))
                 THEN LET f == FieldNamed(dset, parts[2])
                      IN  Arr(IF dset.shape = <<1>> THEN f.sub
                              ELSE dset.shape \o f.sub,
                              f.base, got.loc, f.name, <<>>)
                 ELSE H5LoadRegular(root, path)
        ELSE H5LoadRegular(root, path)

RECURSIVE H5AddItems(_, _, _, _)
\* add_items of H5DatasetSelector._build_tree
H5AddItems(parent, children, parent_path, compatible_paths) ==
    IF children = <<>> THEN <<>>
    ELSE LET item == Head(children)
             key  == item.name
             full_path == IF parent_path /= <<>>
                          THEN Slash(parent_path, key) ELSE key
             below == Append(parent, key)
         IN  (IF item.kind = "Group"
              THEN <<AddGroup(parent, key, full_path, "Group")>>
                   \o H5AddItems(below, item.children, full_path,
                                 compatible_paths)
              ELSE IF IsCompoundDataset(item)
              THEN <<AddGroup(parent, key, full_path, "Compound")>>
                   \o [k \in 1..Len(item.fields) |->
                        LET field_name == item.fields[k].name
                            field_path == Slash(full_path, field_name)
                            info == GetCompoundFieldInfo(item, field_name)
                        IN  AddItem(below, field_name, info.shape, info.dtype,
                                    field_path,
                                    field_path \in compatible_paths)]
              ELSE <<AddItem(parent, key, item.shape, item.dtype, full_path,
                             full_path \in compatible_paths)>>)
             \o H5AddItems(parent, Tail(children), parent_path,
                           compatible_paths)

H5BuildTree(root, compatible_datasets) ==
    H5AddItems(<<>>, root, <<>>,
               {compatible_datasets[k].path :
                    k \in 1..Len(compatible_datasets)})

\* ------------------------------------------------------------------- NPZ
\* The archive is an ordered mapping from key to array.
NpzEntry(key, shape, dtype) == [name |-> key, shape |-> shape, dtype |-> dtype]

\* npz_file[key] of an archive opened with np.load(filepath): the array is
\* decoded on access, and an object array is refused (allow_pickle is off)
NpzGetItem(npz_file, key) ==
    LET hit == {e \in Range(npz_file) : e.name = key}
    IN  IF hit = {} THEN Raise("KeyError")
        ELSE LET e == CHOOSE x \in hit : TRUE
             IN  IF e.dtype = "object" THEN Raise("ValueError")
                 ELSE Arr(e.shape, e.dtype, <<e.name>>, <<>>, <<>>)

\* A discovery result: the compatible sequence, or the exception raised.
Found(list) == [ok |-> TRUE, err |-> "", list |-> list]
FindRaised(e) == [ok |-> FALSE, err |-> e, list |-> <<>>]

NpzFindCompatibleDatasets(npz_file) ==
    LET arrs == [k \in 1..Len(npz_file) |->
                    NpzGetItem(npz_file, npz_file[k].name)]
    IN  IF \E k \in 1..Len(arrs) : ~arrs[k].ok
        THEN FindRaised("ValueError")
        ELSE Found(Flatten([k \in 1..Len(arrs) |->
                 IF Len(arrs[k].shape) >= 1
                 THEN <<[path |-> npz_file[k].name, shape |-> arrs[k].shape,
                         dtype |-> arrs[k].dtype]>>
                 ELSE <<>>]))

NpzLoadData(npz_file, name) == NpzGetItem(npz_file, name)

NpzBuildTree(compatible_datasets) ==
    [k \in 1..Len(compatible_datasets) |->
        AddItem(<<>>, compatible_datasets[k].path, compatible_datasets[k].shape,
                compatible_datasets[k].dtype, compatible_datasets[k].path,
                TRUE)]

\* ------------------------------------------------------------------- MAT
\* A value of the dictionary scipy.io.loadmat returns: an ndarray (numeric,
\* text, cell or struct array) or, with ndarray = FALSE, another object.
\* fields of a struct array: name and the value held by the single element.
MatVal(dtype, shape, fields) ==
    [ndarray |-> TRUE, dtype |-> dtype, shape |-> shape, fields |-> fields]

MatOther == [ndarray |-> FALSE, dtype |-> "", shape |-> <<>>, fields |-> <<>>]

MatField(name, val) == [name |-> name, val |-> val]

MatEntry(key, val) == [name |-> key, val |-> val]

\* the keys loadmat adds to the variables of the file
HeaderKeys == {Str("__header__"), Str("__version__"), Str("__globals__")}

\* k.startswith('__')
StartsWithDunder(k) == k \in HeaderKeys

\* mat_dict of MatDatasetSelector.__init__
MatDict(mat_data) == SelectSeq(mat_data, LAMBDA e : ~StartsWithDunder(e.name))

IsStruct(val) == val.ndarray /\ val.dtype = "struct"

IsNumericArray(val) ==
    val.ndarray /\ IsNumber(val.dtype) /\ Len(val.shape) >= 1

\* arr.item(): only an array of exactly one element converts
ItemRaises(val) == Product(val.shape) /= 1

RECURSIVE HasNumericData(_)
RECURSIVE HasNumericFields(_)
\* _has_numeric_data: "True", "False", or "ValueError" when .item() raises
HasNumericData(var) ==
    IF ~var.ndarray THEN "False"
    ELSE IF IsStruct(var)
    THEN IF var.fields = <<>> THEN "False"
         ELSE IF ItemRaises(var) THEN "ValueError"
         ELSE HasNumericFields(var.fields)
    ELSE IF IsNumericArray(var) THEN "True" ELSE "False"

\* the loop over var.dtype.names: the first field that has numeric data
\* (or raises) ends it
HasNumericFields(fields) ==
    IF fields = <<>> THEN "False"
    ELSE LET r == HasNumericData(Head(fields).val)
         IN  IF r = "False" THEN HasNumericFields(Tail(fields)) ELSE r

MatFindCompatibleDatasets(mat_dict) ==
    LET has == [k \in 1..Len(mat_dict) |-> HasNumericData(mat_dict[k].val)]
    IN  IF \E k \in 1..Len(has) : has[k] = "ValueError"
        THEN FindRaised("ValueError")
        ELSE Found(Flatten([k \in 1..Len(has) |->
                 IF has[k] = "True"
                 THEN <<[path |-> mat_dict[k].name,
                         shape |-> mat_dict[k].val.shape,
                         dtype |-> mat_dict[k].val.dtype]>>
                 ELSE <<>>]))

\* np.squeeze: the dimensions of length one are dropped
Squeeze(shape) == SelectSeq(shape, LAMBDA d : d /= 1)

\* np.atleast_1d
AtLeast1d(shape) == IF shape = <<>> THEN <<1>> ELSE shape

\* returns <<name, array>> or NoneVal
MatGetSingleData(mat_dict) ==
    LET numeric_vars == SelectSeq(mat_dict, LAMBDA e : IsNumericArray(e.val))
    IN  IF Len(numeric_vars) = 1 /\ Len(mat_dict) = 1
        THEN <<numeric_vars[1].name,
               Arr(Squeeze(numeric_vars[1].val.shape),
                   numeric_vars[1].val.dtype, <<numeric_vars[1].name>>,
                   <<>>, <<>>)>>
        ELSE NoneVal

RECURSIVE MatNavigate(_, _, _)
\* the loop of load_data over parts[1:]; loc is the place reached
MatNavigate(data, fields, loc) ==
    IF fields = <<>>
    THEN Arr(AtLeast1d(Squeeze(data.shape)), data.dtype, loc, <<>>, <<>>)
    ELSE IF ~data.ndarray THEN Raise("TypeError")
    ELSE IF ~\E f \in Range(data.fields) : f.name = Head(fields)
    THEN Raise("IndexError")
    ELSE IF ItemRaises(data) THEN Raise("ValueError")
    ELSE MatNavigate(
             (CHOOSE f \in Range(data.fields) : f.name = Head(fields)).val,
             Tail(fields), Append(loc, Head(fields)))

MatLoadData(mat_dict, path) ==
    LET parts == Split(path)
        hit == {e \in Range(mat_dict) : e.name = parts[1]}
    IN  IF hit = {} THEN Raise("KeyError")
        ELSE MatNavigate((CHOOSE e \in hit : TRUE).val, Tail(parts),
                         <<parts[1]>>)

\* A tree under construction: the items added, or the exception raised.
Built(items) == [ok |-> TRUE, err |-> "", items |-> items]
BuildRaised(e) == [ok |-> FALSE, err |-> e, items |-> <<>>]

RECURSIVE MatAddField(_, _, _, _)
RECURSIVE MatAddFields(_, _, _)
\* _add_field
MatAddField(field_name, field_val, field_path, parent) ==
    IF ~field_val.ndarray THEN Built(<<>>)
    ELSE IF IsStruct(field_val)
    THEN IF field_val.fields /= <<>> /\ ItemRaises(field_val)
         THEN BuildRaised("ValueError")
         ELSE LET sub == MatAddFields(field_val.fields, field_path,
                                      Append(parent, field_name))
              IN  IF sub.ok
                  THEN Built(<<AddGroup(parent, field_name, NoneVal, "struct")>>
                             \o sub.items)
                  ELSE sub
    ELSE IF IsNumericArray(field_val)
    THEN Built(<<AddItem(parent, field_name, field_val.shape, field_val.dtype,
                         field_path, TRUE)>>)
    ELSE Built(<<AddItem(parent, field_name, field_val.shape, field_val.dtype,
                         NoneVal, FALSE)>>)

\* the loop over the fields of a struct, in _add_variable and _add_field
MatAddFields(fields, path, parent) ==
    IF fields = <<>> THEN Built(<<>>)
    ELSE LET one == MatAddField(Head(fields).name, Head(fields).val,
                                Slash(path, Head(fields).name), parent)
         IN  IF ~one.ok THEN one
             ELSE LET rest == MatAddFields(Tail(fields), path, parent)
                  IN  IF rest.ok THEN Built(one.items \o rest.items) ELSE rest

\* _add_variable
MatAddVariable(name, val, parent) ==
    IF ~val.ndarray THEN Built(<<>>)
    ELSE IF IsStruct(val)
    THEN IF val.fields /= <<>> /\ ItemRaises(val)
         THEN BuildRaised("ValueError")
         ELSE LET sub == MatAddFields(val.fields, name, Append(parent, name))
              IN  IF sub.ok
                  THEN Built(<<AddGroup(parent, name, NoneVal, "struct")>>
                             \o sub.items)
                  ELSE sub
    ELSE IF IsNumericArray(val)
    THEN Built(<<AddItem(parent, name, val.shape, val.dtype, name, TRUE)>>)
    ELSE Built(<<>>)

\* the alphabet that orders the names (sorted() compares strings)
Alphabet == <<"a", "b", "c", "d", "g", "h", "s", "t", "x", "y">>

Rank(name) == CHOOSE k \in 1..Len(Alphabet) : Alphabet[k] = name[1]

RECURSIVE SortedEntries(_)
\* the entries of the dictionary in the order of sorted(mat_dict.keys())
SortedEntries(entries) ==
    IF entries = <<>> THEN <<>>
    ELSE LET least == CHOOSE e \in Range(entries) :
                          \A o \in Range(entries) : Rank(e.name) <= Rank(o.name)
         IN  <<least>> \o SortedEntries(SelectSeq(entries, LAMBDA e : e /= least))

RECURSIVE MatAddVariables(_)
MatAddVariables(entries) ==
    IF entries = <<>> THEN Built(<<>>)
    ELSE LET one == MatAddVariable(Head(entries).name, Head(entries).val, <<>>)
         IN  IF ~one.ok THEN one
             ELSE LET rest == MatAddVariables(Tail(entries))
                  IN  IF rest.ok THEN Built(one.items \o rest.items) ELSE rest

MatBuildTree(mat_dict) == MatAddVariables(SortedEntries(mat_dict))

\* ------------------------------------------------------------- selectors
\* A file argument: whether the path exists, its lower-cased suffix, whether
\* the backing library imports, whether the container opens, and what the
\* library then shows of it.
FileArg(exists, suffix, lib, valid, content) ==
    [exists |-> exists, suffix |-> suffix, lib |-> lib, valid |-> valid,
     content |-> content]

IsH5(f) == f.suffix \in {".h5", ".hdf5"}
IsNpz(f) == f.suffix = ".npz"
IsMat(f) == f.suffix = ".mat"

\* __init__ of the selector the suffix asks for: the compatible sequence, or
\* the exception the constructor raises
Construct(f) ==
    IF IsH5(f)
    THEN IF ~f.lib THEN FindRaised("ImportError")
         ELSE IF ~f.valid THEN FindRaised("OSError")
         ELSE Found(H5FindCompatibleDatasets(f.content))
    ELSE IF IsNpz(f)
    THEN IF ~f.valid THEN FindRaised("OSError")
         ELSE NpzFindCompatibleDatasets(f.content)
    ELSE IF ~f.lib THEN FindRaised("ImportError")
         ELSE IF ~f.valid THEN FindRaised("ValueError")
         ELSE MatFindCompatibleDatasets(MatDict(f.content))

LoadData(f, path) ==
    IF IsH5(f) THEN H5LoadData(f.content, path)
    ELSE IF IsNpz(f) THEN NpzLoadData(f.content, path)
    ELSE MatLoadData(MatDict(f.content), path)

\* get_single_data of H5DatasetSelector and NpzDatasetSelector
GetSingleViaLoad(f, compatible) ==
    IF Len(compatible) = 1
    THEN <<compatible[1].path, LoadData(f, compatible[1].path)>>
    ELSE NoneVal

\* <<name, data>> or NoneVal; data.ok = FALSE when the load raised
GetSingleData(f, compatible) ==
    IF IsMat(f) THEN MatGetSingleData(MatDict(f.content))
    ELSE GetSingleViaLoad(f, compatible)

BuildTree(f, compatible) ==
    IF IsH5(f) THEN Built(H5BuildTree(f.content, compatible))
    ELSE IF IsNpz(f) THEN Built(NpzBuildTree(compatible))
    ELSE MatBuildTree(MatDict(f.content))

RequiresGui(compatible) == Len(compatible) > 1

\* what view() does in the calling process: the value it returns ("True",
\* "False"), "spawn" with it when it starts the dialog process, the pair
\* handed to the viewer, and the exception that escapes it
ViewOutcome(f, compatible) ==
    IF ~RequiresGui(compatible)
    THEN LET result == GetSingleData(f, compatible)
         IN  IF result = NoneVal
             THEN [ret |-> "False", spawn |-> FALSE, shown |-> NoneVal, err |-> ""]
             ELSE IF ~result[2].ok
             THEN [ret |-> "", spawn |-> FALSE, shown |-> NoneVal,
                   err |-> result[2].err]
             ELSE [ret |-> "True", spawn |-> FALSE, shown |-> result, err |-> ""]
    ELSE [ret |-> "True", spawn |-> TRUE, shown |-> NoneVal, err |-> ""]

\* ------------------------------------------------------- reads of values
\* The entries whose array values an operation reads from the file, by key
\* or path.  h5py hands out Dataset objects and reads values only when one
\* is indexed or converted (dset[field_name], np.array(dset)); NpzFile
\* decodes the whole array on npz_file[key]; loadmat reads every variable.

\* the loop of NpzDatasetSelector._find_compatible_datasets: npz_file[key]
\* for each key in turn, up to the one that raises
NpzFindReads(npz_file) ==
    { npz_file[k].name :
        k \in { j \in 1..Len(npz_file) :
                  \A i \in 1..j : NpzGetItem(npz_file, npz_file[i].name).ok } }

\* scipy.io.loadmat(filepath): every variable of the file is read
LoadmatReads(mat_data) == { e.name : e \in Range(MatDict(mat_data)) }

\* what the constructor of the selector reads
ConstructReads(f) ==
    IF IsH5(f) THEN {}
    ELSE IF IsNpz(f)
    THEN IF f.valid THEN NpzFindReads(f.content) ELSE {}
    ELSE IF f.lib /\ f.valid THEN LoadmatReads(f.content) ELSE {}

\* what load_data(path) reads: the entry at path when it is found (HDF5,
\* NPZ), nothing for MAT, whose load_data navigates mat_dict in memory
LoadReads(f, path) ==
    IF IsMat(f) THEN {}
    ELSE IF LoadData(f, path).ok THEN {path} ELSE {}

\* what view() reads in the calling process: get_single_data's load_data
ViewReads(f, compatible) ==
    IF ~RequiresGui(compatible) /\ ~IsMat(f) /\ Len(compatible) = 1
    THEN LoadReads(f, compatible[1].path)
    ELSE {}

\* ----------------------------------------------------------------- state
VARIABLES
    file,                 \* the file the selector is built for
    pc,                   \* where the selector's life stands
    compatible_datasets,  \* DatasetSelector.compatible_datasets
    tree,                 \* the items of DatasetSelector.tree
    selected_dataset,     \* DatasetSelector.selected_dataset
    dialog_result,        \* what dialog.exec() returns
    clicks,               \* double-clicks delivered so far
    view_result,          \* what view() returned
    shown,                \* <<name, array>> handed to the viewer
    show_result,          \* what show() returned
    loaded,               \* <<path, array>> of the last load_data call
    raised,               \* the exception that escaped, "" if none
    values_read,          \* the entries whose array values were read so far
    args,                 \* the command line's file arguments
    idx,                  \* the argument the loop of main() is at
    outcomes              \* what the loop did with each argument so far

selvars == <<file, pc, compatible_datasets, tree, selected_dataset,
             dialog_result, clicks, view_result, shown, show_result, loaded,
             raised, values_read>>
clivars == <<args, idx, outcomes>>
vars == <<file, pc, compatible_datasets, tree, selected_dataset,
          dialog_result, clicks, view_result, shown, show_result, loaded,
          raised, values_read, args, idx, outcomes>>

\* ------------------------------------------------------------ containers
\* The files the model inspects.  The first top-level entry is drawn from
\* every leaf at every depth up to MaxDepth; the entries after it are drawn
\* from a few plain ones, which vary the number of compatible entries.
RootNames == <<"a", "b", "c", "d">>
InnerNames == <<"g", "h", "s", "t">>
MatRootNames == <<"b", "a", "c", "d">>

SeqsUpTo(S, n) == UNION {[1..m -> S] : m \in 0..n}

Tmpl(shape, dtype, fields) == [shape |-> shape, dtype |-> dtype, fields |-> fields]

Scalar(name, base) == Field(Str(name), base, FALSE, <<>>)
Sub(name, base, shape) == Field(Str(name), base, TRUE, shape)

H5PlainLeaves ==
    { Tmpl(<<3>>, "float", <<>>), Tmpl(<<>>, "float", <<>>),
      Tmpl(<<3>>, "str", <<>>), Tmpl(<<2, 3>>, "complex", <<>>) }

H5FieldLists ==
    { <<Scalar("real", "float"), Scalar("imag", "float")>>,
      <<Scalar("r", "float"), Scalar("realdata", "float"),
        Scalar("i", "float"), Scalar("imagdata", "float")>>,
      <<Scalar("real", "float"), Scalar("x", "int")>>,
      <<Scalar("x", "float"), Scalar("y", "float")>>,
      <<Sub("x", "float", <<3>>), Scalar("y", "str")>>,
      <<Sub("x", "float", <<3>>), Sub("y", "int", <<2>>)>> }

H5CompoundLeaves ==
    { Tmpl(shape, "compound", fl) : shape \in {<<1>>, <<2>>}, fl \in H5FieldLists }
    \cup { Tmpl(<<>>, "compound", <<Sub("x", "float", <<3>>)>>) }

H5Leaves == H5PlainLeaves \cup H5CompoundLeaves

H5Fillers ==
    { Tmpl(<<3>>, "float", <<>>), Tmpl(<<3>>, "str", <<>>),
      Tmpl(<<1>>, "compound", <<Sub("x", "float", <<3>>)>>) }

RECURSIVE H5Chain(_, _, _, _)
\* the leaf t inside depth groups; the outermost object is called name
H5Chain(name, depth, level, t) ==
    IF depth = 0 THEN H5Dataset(Str(name), t.shape, t.dtype, t.fields)
    ELSE H5Group(Str(name),
             <<H5Chain(IF depth = 1 THEN "d" ELSE InnerNames[level],
                       depth - 1, level + 1, t)>>)

H5Roots ==
    { <<>> } \cup
    { <<H5Chain(RootNames[1], d, 1, t)>>
        \o [k \in 1..Len(fs) |-> H5Chain(RootNames[k + 1], 0, 1, fs[k])] :
        d \in 0..MaxDepth, t \in H5Leaves, fs \in SeqsUpTo(H5Fillers, MaxEntries - 1) }

NpzLeaves ==
    { Tmpl(shape, dtype, <<>>) :
        shape \in {<<>>, <<3>>, <<1, 3>>}, dtype \in {"float", "complex", "str"} }
    \cup { Tmpl(<<2>>, "object", <<>>) }

NpzArchives ==
    { [k \in 1..Len(es) |-> NpzEntry(Str(RootNames[k]), es[k].shape, es[k].dtype)] :
        es \in SeqsUpTo(NpzLeaves, MaxEntries) }

MatLeaves ==
    { MatVal("float", <<1, 3>>, <<>>), MatVal("float", <<1, 1>>, <<>>),
      MatVal("str", <<1>>, <<>>), MatVal("object", <<1, 2>>, <<>>) }

MatStructShapes == { <<1, 1>>, <<1, 2>>, <<0, 0>> }

RECURSIVE MatVals(_)
\* the values nested in at most depth structs
MatVals(depth) ==
    IF depth = 0 THEN MatLeaves
    ELSE LET inner == MatVals(depth - 1)
         IN  MatLeaves \cup
             { MatVal("struct", shape, fields) :
                 shape \in MatStructShapes,
                 fields \in
                     { <<MatField(Str("x"), v)>> : v \in inner }
                     \cup { <<MatField(Str("x"), v),
                              MatField(Str("y"), MatVal("str", <<1>>, <<>>))>> :
                            v \in inner }
                     \cup { <<MatField(Str("y"), MatVal("float", <<1, 3>>, <<>>)),
                              MatField(Str("x"), v)>> : v \in inner } }

MatFillers ==
    { MatVal("float", <<1, 3>>, <<>>), MatVal("str", <<1>>, <<>>),
      MatVal("struct", <<1, 1>>,
             <<MatField(Str("x"), MatVal("float", <<2, 3>>, <<>>))>>) }

\* what loadmat returns: its three header keys, then the variables
MatHeader ==
    << MatEntry(Str("__header__"), MatOther), MatEntry(Str("__version__"), MatOther),
       MatEntry(Str("__globals__"), MatOther) >>

MatFiles ==
    { MatHeader } \cup
    { MatHeader \o <<MatEntry(Str(MatRootNames[1]), v)>>
        \o [k \in 1..Len(fs) |-> MatEntry(Str(MatRootNames[k + 1]), fs[k])] :
        v \in MatVals(MaxDepth), fs \in SeqsUpTo(MatFillers, MaxEntries - 1) }

\* the files a selector is built for: the containers that open, and for
\* each format the ones whose library is missing or that do not open
SelectorFiles ==
    { FileArg(TRUE, ".h5", TRUE, TRUE, c) : c \in H5Roots }
    \cup { FileArg(TRUE, ".npz", TRUE, TRUE, c) : c \in NpzArchives }
    \cup { FileArg(TRUE, ".mat", TRUE, TRUE, c) : c \in MatFiles }
    \cup { FileArg(TRUE, sfx, lib, valid, <<>>) :
             sfx \in {".h5", ".npz", ".mat"}, lib \in BOOLEAN, valid \in BOOLEAN }

\* ---------------------------------------------------- selector life cycle
InitSel ==
    /\ pc = "new"
    /\ compatible_datasets = <<>>
    /\ tree = <<>>
    /\ selected_dataset = NoneVal
    /\ dialog_result = "none"
    /\ clicks = 0
    /\ view_result = "none"
    /\ shown = NoneVal
    /\ show_result = NoneVal
    /\ loaded = NoneVal
    /\ raised = ""
    /\ values_read = {}

Init ==
    /\ file \in SelectorFiles
    /\ InitSel
    /\ args = <<>>
    /\ idx = 1
    /\ outcomes = <<>>

\* H5DatasetSelector(filepath), NpzDatasetSelector(filepath) or
\* MatDatasetSelector(filepath)
New ==
    /\ pc = "new"
    /\ LET c == Construct(file)
       IN  /\ compatible_datasets' = c.list
           /\ raised' = c.err
           /\ pc' = IF c.ok THEN "ready" ELSE "ctor_raised"
    /\ values_read' = values_read \cup ConstructReads(file)
    /\ UNCHANGED <<file, tree, selected_dataset, dialog_result, clicks,
                   view_result, shown, show_result, loaded, clivars>>

\* selector.view(): loads the single entry and hands it to the viewer, or
\* starts the process that shows the dialog
View ==
    /\ pc = "ready"
    /\ LET v == ViewOutcome(file, compatible_datasets)
       IN  /\ view_result' = IF v.err = "" THEN v.ret ELSE "none"
           /\ shown' = v.shown
           /\ raised' = v.err
           /\ pc' = IF v.err /= "" THEN "view_raised"
                    ELSE IF v.spawn THEN "spawned" ELSE "viewed"
    /\ values_read' = values_read \cup ViewReads(file, compatible_datasets)
    /\ UNCHANGED <<file, compatible_datasets, tree, selected_dataset,
                   dialog_result, clicks, show_result, loaded, clivars>>

\* show() up to dialog.exec(): _create_dialog builds the tree.  show() runs
\* in the process view() started, or is called on the selector directly.
CreateDialog ==
    /\ pc \in {"ready", "spawned"}
    /\ LET b == BuildTree(file, compatible_datasets)
       IN  /\ tree' = b.items
           /\ raised' = b.err
           /\ pc' = IF b.ok THEN "dialog" ELSE "tree_raised"
    /\ UNCHANGED <<file, compatible_datasets, selected_dataset, dialog_result,
                   clicks, view_result, shown, show_result, loaded,
                   values_read, clivars>>

\* _on_item_double_clicked(item, column, dialog), item the k-th of the tree
OnItemDoubleClicked(k) ==
    /\ pc = "dialog"
    /\ clicks < MaxClicks
    /\ clicks' = clicks + 1
    /\ IF tree[k].compatible
       THEN /\ selected_dataset' = tree[k].path
            /\ dialog_result' = "Accepted"
            /\ pc' = "returned"
       ELSE UNCHANGED <<selected_dataset, dialog_result, pc>>
    /\ UNCHANGED <<file, compatible_datasets, tree, view_result, shown,
                   show_result, loaded, raised, values_read, clivars>>

\* the user closes the dialog: exec() returns Rejected
CloseDialog ==
    /\ pc = "dialog"
    /\ dialog_result' = "Rejected"
    /\ pc' = "returned"
    /\ UNCHANGED <<file, compatible_datasets, tree, selected_dataset, clicks,
                   view_result, shown, show_result, loaded, raised,
                   values_read, clivars>>

\* what show() returns once exec() has returned
ShowReturn(result, selected) ==
    IF result = "Accepted" /\ selected /= NoneVal THEN selected ELSE NoneVal

\* the rest of show() and of _run_and_view: the selected path is loaded and
\* handed to the viewer
RunAndView ==
    /\ pc = "returned"
    /\ LET selected_path == ShowReturn(dialog_result, selected_dataset)
           data == LoadData(file, selected_path)
       IN  /\ show_result' = selected_path
           /\ IF selected_path = NoneVal
              THEN UNCHANGED <<shown, raised>> /\ pc' = "done"
              ELSE IF data.ok
              THEN shown' = <<selected_path, data>> /\ UNCHANGED raised
                   /\ pc' = "done"
              ELSE raised' = data.err /\ UNCHANGED shown /\ pc' = "load_raised"
           /\ values_read' = values_read \cup
                   (IF selected_path = NoneVal THEN {}
                    ELSE LoadReads(file, selected_path))
    /\ UNCHANGED <<file, compatible_datasets, tree, selected_dataset,
                   dialog_result, clicks, view_result, loaded, clivars>>

\* the paths a caller may hand to load_data: those of the compatible
\* sequence, those stored on the items of the tree, and (HDF5) the names of
\* the datasets of the file
DatasetNames(f) ==
    IF IsH5(f) /\ f.lib /\ f.valid
    THEN LET visited == VisitItems(f.content, <<>>)
         IN  {visited[k].name : k \in {j \in 1..Len(visited) :
                                          visited[j].obj.kind = "Dataset"}}
    ELSE {}

CallerPaths(f, compatible) ==
    {compatible[k].path : k \in 1..Len(compatible)}
    \cup {it.path : it \in Range(BuildTree(f, compatible).items)}
    \cup DatasetNames(f)

\* selector.load_data(path)
LoadCall(path) ==
    /\ pc \in {"ready", "loaded"}
    /\ path /= NoneVal
    /\ loaded' = <<path, LoadData(file, path)>>
    /\ values_read' = values_read \cup LoadReads(file, path)
    /\ pc' = "loaded"
    /\ UNCHANGED <<file, compatible_datasets, tree, selected_dataset,
                   dialog_result, clicks, view_result, shown, show_result,
                   raised, clivars>>

Next ==
    \/ New
    \/ View
    \/ CreateDialog
    \/ \E k \in 1..Len(tree) : OnItemDoubleClicked(k)
    \/ CloseDialog
    \/ RunAndView
    \/ \E path \in CallerPaths(file, compatible_datasets) : LoadCall(path)

Spec == Init /\ [][Next]_vars

\* ------------------------------------------------------------ main loop
\* suffixes load_file handles
SingleFormats == {".npy", ".rec", ".cfl", ".dcm", ".nii", ".nii.gz"}

\* a handler that names one exception class only
CatchesOSErrorOnly(err) == err = "OSError"

\* the exceptions `except Exception` catches: every one raised here
Catches(err) ==
    err \in {"ImportError", "OSError", "ValueError", "KeyError",
             "AttributeError", "IndexError", "TypeError"}

\* lines 62-64 of the try block, given what the constructor and view() did
SelectAndView(c, v) ==
    IF ~c.ok THEN [err |-> c.err, what |-> ""]
    ELSE IF v.err /= "" THEN [err |-> v.err, what |-> ""]
    ELSE IF v.ret = "False" THEN [err |-> "", what |-> "no_compatible"]
    ELSE IF v.spawn THEN [err |-> "", what |-> "dialog"]
    ELSE [err |-> "", what |-> "viewed"]

\* the exception raised inside the try block for one argument ("" if none)
\* and, when none is raised, what the iteration did.  load_file returns the
\* array of a file it can read and raises on one it cannot.
TryBody(f) ==
    IF f.suffix \in SingleFormats
    THEN IF f.valid THEN [err |-> "", what |-> "viewed"]
         ELSE [err |-> "ValueError", what |-> ""]
    ELSE IF IsH5(f) \/ IsNpz(f) \/ IsMat(f)
    THEN SelectAndView(Construct(f), ViewOutcome(f, Construct(f).list))
    ELSE [err |-> "", what |-> "unsupported"]

\* the except clause, given what the try block did
Except(t) ==
    IF t.err = "" THEN [what |-> t.what, goes_on |-> TRUE]
    ELSE IF Catches(t.err) THEN [what |-> "error", goes_on |-> TRUE]
    ELSE [what |-> "uncaught", goes_on |-> FALSE]

\* one pass of the loop body: what was done with the argument, and whether
\* the loop goes on to the next one
Iteration(f) ==
    IF ~f.exists THEN [what |-> "not_found", goes_on |-> TRUE]
    ELSE Except(TryBody(f))

ArgFiles ==
    { FileArg(FALSE, ".h5", TRUE, TRUE, <<>>),
      FileArg(TRUE, ".txt", TRUE, TRUE, <<>>),
      FileArg(TRUE, ".npy", TRUE, TRUE, <<>>),
      FileArg(TRUE, ".nii.gz", TRUE, FALSE, <<>>),
      FileArg(TRUE, ".h5", FALSE, TRUE, <<>>),
      FileArg(TRUE, ".hdf5", TRUE, FALSE, <<>>),
      FileArg(TRUE, ".h5", TRUE, TRUE,
              <<H5Dataset(Str("a"), <<3>>, "float", <<>>)>>),
      FileArg(TRUE, ".h5", TRUE, TRUE,
              <<H5Group(Str("a"), <<H5Dataset(Str("d"), <<3>>, "float", <<>>)>>)>>),
      FileArg(TRUE, ".hdf5", TRUE, TRUE,
              <<H5Dataset(Str("a"), <<3>>, "float", <<>>),
                H5Dataset(Str("b"), <<2, 3>>, "complex", <<>>)>>),
      FileArg(TRUE, ".npz", TRUE, TRUE, <<>>),
      FileArg(TRUE, ".mat", TRUE, TRUE,
              MatHeader \o <<MatEntry(Str("b"), MatVal("struct", <<1, 2>>,
                  <<MatField(Str("x"), MatVal("float", <<1, 3>>, <<>>))>>))>>),
      FileArg(TRUE, ".mat", TRUE, TRUE,
              MatHeader \o <<MatEntry(Str("b"), MatVal("float", <<1, 3>>, <<>>))>>) }

NoFile == FileArg(FALSE, "", FALSE, FALSE, <<>>)

CliInit ==
    /\ args \in UNION {[1..n -> ArgFiles] : n \in 1..MaxFiles}
    /\ idx = 1
    /\ outcomes = <<>>
    /\ file = NoFile
    /\ InitSel

\* the end of one pass: its outcome is recorded and the loop moves on
EndPass(it) ==
    /\ outcomes' = Append(outcomes, [arg |-> idx, what |-> it.what])
    /\ idx' = IF it.goes_on THEN idx + 1 ELSE Len(args) + 1

\* one pass of `for file_arg in args.files`
MainLoop ==
    /\ idx <= Len(args)
    /\ EndPass(Iteration(args[idx]))
    /\ UNCHANGED <<args, selvars>>

CliNext == MainLoop

CliSpec == CliInit /\ [][CliNext]_vars

\* ============================================================== properties
\* The nodes of a container, read off its structure: where the node is (the
\* names from the root, and for a field of a compound dataset the field),
\* whether it is a container (group, struct, compound dataset), and for a
\* leaf whether its elements are numbers, and its shape.
Node(loc, field, container, numeric, shape) ==
    [loc |-> loc, field |-> field, container |-> container,
     numeric |-> numeric, shape |-> shape]

RECURSIVE H5Nodes(_, _)
H5Nodes(children, loc) ==
    UNION { LET c == children[k]
                here == Append(loc, c.name)
            IN  IF c.kind = "Group"
                THEN {Node(here, <<>>, TRUE, FALSE, <<>>)}
                     \cup H5Nodes(c.children, here)
                ELSE IF c.dtype = "compound"
                THEN {Node(here, <<>>, TRUE, FALSE, c.shape)}
                     \cup {Node(here, fld.name, FALSE, IsNumber(fld.base), fld.sub) :
                             fld \in Range(c.fields)}
                ELSE {Node(here, <<>>, FALSE, IsNumber(c.dtype), c.shape)}
          : k \in 1..Len(children) }

RECURSIVE MatNodes(_, _)
MatNodes(val, loc) ==
    IF val.ndarray /\ val.dtype = "struct"
    THEN {Node(loc, <<>>, TRUE, FALSE, val.shape)}
         \cup (IF Product(val.shape) = 1
               THEN UNION {MatNodes(fld.val, Append(loc, fld.name)) :
                              fld \in Range(val.fields)}
               ELSE {})
    ELSE {Node(loc, <<>>, FALSE, val.ndarray /\ IsNumber(val.dtype), val.shape)}

Nodes(f) ==
    IF IsH5(f) THEN H5Nodes(f.content, <<>>)
    ELSE IF IsNpz(f)
    THEN {Node(<<e.name>>, <<>>, FALSE, IsNumber(e.dtype), e.shape) :
            e \in Range(f.content)}
    ELSE UNION {MatNodes(e.val, <<e.name>>) :
                  e \in {x \in Range(f.content) : x.name \notin HeaderKeys}}

LeafNodes(f) == {n \in Nodes(f) : ~n.container}

\* the names from the root to the node, the field of a compound included
NodeNames(n) == IF n.field = <<>> THEN n.loc ELSE Append(n.loc, n.field)

RECURSIVE JoinNames(_)
JoinNames(names) ==
    IF Len(names) = 1 THEN names[1]
    ELSE names[1] \o <<SLASH>> \o JoinNames(Tail(names))

NodePath(n) == JoinNames(NodeNames(n))

\* compatible by the rule: a leaf of numbers of rank at least 1
RuleCompatible(n) == ~n.container /\ n.numeric /\ Len(n.shape) >= 1

CompatiblePaths == {compatible_datasets[k].path : k \in 1..Len(compatible_datasets)}

CompatibleItems == {it \in Range(tree) : it.compatible}

\* the container opened and the constructor returned
Constructed == pc \notin {"new", "ctor_raised"}

ViewActed == pc \in {"viewed", "spawned", "view_raised"}

\* C1: the outcome of view() follows the number of entries of the compatible
\* sequence alone: none gives False, one entry is loaded and handed to the
\* viewer as (name, array) and get_single_data() is not None, more than one
\* goes to the dialog.
C1_ViewFollowsCount ==
    ViewActed =>
        /\ Len(compatible_datasets) = 0 => pc = "viewed" /\ view_result = "False"
        /\ Len(compatible_datasets) = 1 =>
              /\ pc = "viewed" /\ view_result = "True"
              /\ shown /= NoneVal
              /\ shown[1] = compatible_datasets[1].path
              /\ shown[2].ok
        /\ Len(compatible_datasets) > 1 => pc = "spawned"

\* C2: an entry is in the compatible sequence exactly when it is a leaf that
\* is no container, holds numbers and has rank at least 1.
C2_CompatibleIffNumericLeaf ==
    Constructed =>
        CompatiblePaths = {NodePath(n) : n \in {m \in Nodes(file) : RuleCompatible(m)}}

\* what discovery emits for compatible nodes: the compatible sequence and, once
\* the tree is built, the paths on its compatible leaves
EmittedPaths == CompatiblePaths \cup {it.path : it \in CompatibleItems}

\* C3: load_data(path) of an emitted path finds the node that produced the
\* path and returns its values.
C3_PathsReversible ==
    (pc = "loaded" /\ loaded[1] \in EmittedPaths) =>
        /\ loaded[2].ok
        /\ \E n \in Nodes(file) :
              /\ NodePath(n) = loaded[1]
              /\ loaded[2].node = n.loc
              /\ loaded[2].field = n.field

\* C4: the compatible leaves of the tree are the compatible sequence: as many,
\* with the same paths.
C4_SequenceIsViewOfTree ==
    pc = "dialog" =>
        /\ Cardinality({k \in 1..Len(tree) : tree[k].compatible})
              = Len(compatible_datasets)
        /\ {it.path : it \in CompatibleItems} = CompatiblePaths

\* C5: a file resolved to its single entry gives that entry's path as name
\* and an array of the shape recorded for the entry.
C5_ResolvedShapeIsDiscoveredShape ==
    (pc = "viewed" /\ view_result = "True") =>
        /\ Len(compatible_datasets) = 1
        /\ shown[1] = compatible_datasets[1].path
        /\ shown[2].shape = compatible_datasets[1].shape

\* the dataset of the file whose name is path
DatasetAt(f, path) ==
    LET visited == VisitItems(f.content, <<>>)
    IN  visited[CHOOSE k \in 1..Len(visited) : visited[k].name = path].obj

\* the first of three names, in order, that is among names; NoneVal if none
FirstOfThree(n1, n2, n3, names) ==
    IF Str(n1) \in names THEN Str(n1)
    ELSE IF Str(n2) \in names THEN Str(n2)
    ELSE IF Str(n3) \in names THEN Str(n3)
    ELSE NoneVal

\* C6: loading an HDF5 dataset by its path, wherever the dataset is: complex
\* data comes back as it is; of a compound dataset the real part is the first
\* of real, realdata, r among its fields and the imaginary part the first of
\* imag, imagdata, i; both found give real + i*imag, the real part alone
\* gives the real array, neither gives the compound data unmodified.
C6_ComplexReconstruction ==
    (pc = "loaded" /\ IsH5(file) /\ loaded[1] \in DatasetNames(file)) =>
        LET dset == DatasetAt(file, loaded[1])
            names == {fld.name : fld \in Range(dset.fields)}
            re == FirstOfThree("real", "realdata", "r", names)
            im == FirstOfThree("imag", "imagdata", "i", names)
            got == loaded[2]
        IN  /\ dset.dtype = "complex" =>
                 got.ok /\ got.dtype = "complex" /\ got.shape = dset.shape
                 /\ got.field = <<>>
            /\ (dset.dtype = "compound" /\ re /= NoneVal /\ im /= NoneVal) =>
                 got.ok /\ got.dtype = "complex" /\ got.field = re /\ got.imag = im
            /\ (dset.dtype = "compound" /\ re /= NoneVal /\ im = NoneVal) =>
                 got.ok /\ got.dtype /= "complex" /\ got.field = re
                 /\ got.imag = <<>>
            /\ (dset.dtype = "compound" /\ re = NoneVal /\ im = NoneVal) =>
                 got.ok /\ got.dtype = "compound" /\ got.shape = dset.shape
                 /\ got.field = <<>>

\* C7: for a container that opens, neither constructing the selector nor
\* building the tree raises.
C7_DiscoveryIsTotal ==
    (file.lib /\ file.valid) => pc \notin {"ctor_raised", "tree_raised"}

\* what the loop owes an argument that fails, by the kind of failure
Owed(f) ==
    IF ~f.exists THEN {"not_found"}
    ELSE IF f.suffix \notin SingleFormats \cup {".h5", ".hdf5", ".npz", ".mat"}
    THEN {"unsupported"}
    ELSE IF ~f.valid \/ (~f.lib /\ f.suffix \in {".h5", ".hdf5", ".mat"})
    THEN {"error"}
    ELSE IF f.suffix \in SingleFormats THEN {"viewed"}
    ELSE IF ~Construct(f).ok \/ ViewOutcome(f, Construct(f).list).err /= ""
    THEN {"error"}
    ELSE {"no_compatible", "viewed", "dialog"}

LoopDone == idx = Len(args) + 1 /\ Len(outcomes) = Len(args)

\* C8: the loop of main() takes the arguments one by one in order; a failure
\* on one (not found, unsupported, open or library failure, failure while
\* discovering or loading) is reported for that argument, the later ones are
\* still processed, and the loop reaches the end of the list: every pass
\* records one argument and moves to the next one, none ends the loop early,
\* and the loop stops only with every argument recorded.
C8_FailureIsolation ==
    /\ idx = Len(outcomes) + 1
    /\ \A k \in 1..Len(outcomes) :
          outcomes[k].arg = k /\ outcomes[k].what \in Owed(args[k])
    /\ LoopDone \/ idx <= Len(args)

\* a failure was followed by a file that was viewed, and the loop ended
C8_Witness ==
    /\ LoopDone
    /\ \E k \in 1..(Len(outcomes) - 1) :
          outcomes[k].what = "error" /\ outcomes[k + 1].what = "viewed"

ShowReturned == pc \in {"done", "load_raised"}

C9_ReturnsNoneOrCompatibleLeaf ==
    /\ ShowReturned =>
          \/ show_result = NoneVal
          \/ \E it \in Range(tree) :
                it.type = "" /\ it.compatible /\ it.path = show_result
    /\ (ShowReturned /\ dialog_result /= "Accepted") =>
          show_result = NoneVal /\ pc = "done" /\ shown = NoneVal

C9_OtherItemsChangeNothing ==
    \A k \in 1..Len(tree) :
        (OnItemDoubleClicked(k) /\ (tree[k].type /= "" \/ ~tree[k].compatible))
            => UNCHANGED <<selected_dataset, dialog_result, pc>>

\* C9: show() returns None or the path of a leaf tagged compatible; a
\* double-click on a group, struct or compound item or on an incompatible
\* leaf changes neither selected_dataset nor the dialog; a dialog closed
\* without an accepted selection returns None and nothing is loaded.
C9_OnlyCompatibleLeavesSelectable ==
    []C9_ReturnsNoneOrCompatibleLeaf /\ [][C9_OtherItemsChangeNothing]_vars

\* a click on an item that is no compatible leaf, then one on a compatible
\* leaf of a tree that has groups, and show() returned its path
C9_Witness ==
    /\ pc = "done" /\ clicks >= 2 /\ show_result /= NoneVal
    /\ \E it \in Range(tree) : it.type /= ""

\* C10: every leaf of the container is an item of the tree, and a leaf that
\* is a scalar or holds no numbers is there tagged incompatible.
C10_EveryLeafInTree ==
    pc = "dialog" =>
        \A n \in LeafNodes(file) :
            \E it \in Range(tree) :
                /\ it.type = ""
                /\ Append(it.parent, it.name) = NodeNames(n)
                /\ ~RuleCompatible(n) => ~it.compatible

\* The entry an operation was asked for: the single compatible entry that
\* view() loads by itself, the path show() returned, or the path a caller
\* hands to load_data.
ChosenInStep ==
    (IF pc = "ready" /\ pc' \in {"viewed", "view_raised"}
        /\ Len(compatible_datasets) = 1
     THEN {compatible_datasets[1].path} ELSE {})
    \cup (IF pc = "returned" /\ show_result' /= NoneVal
          THEN {show_result'} ELSE {})
    \cup (IF pc' = "loaded" /\ loaded' /= NoneVal THEN {loaded'[1]} ELSE {})

\* C11: array values are read only on demand.  No step reads the values of
\* an entry other than the one chosen in that step, so construction and
\* tree building, which choose nothing, read no values in any format.
C11_ValuesReadOnlyOnDemand ==
    [][values_read' \ values_read \subseteq ChosenInStep]_vars

====
